---- MODULE Spec2Model ----
(***************************************************************************)
(* Model of the coupon checker (src/coupon-checker.py): the scheduler loop *)
(* main() and one attempt run_once(), step by step, with the browser, the  *)
(* page, the screenshot file and the webhook as an environment that may    *)
(* answer or raise at every call.                                          *)
(*                                                                         *)
(* Strings the code transforms (popup markup, proxy entries) are sequences *)
(* of tokens; messages the code only formats are tags.                     *)
(***************************************************************************)
EXTENDS Integers, Sequences, FiniteSets, TLC

\* Bound on the number of attempts the scheduler starts in a behaviour.
MaxRuns == 2

None == "None"
NoProxy == <<>>
NoMarkup == <<>>
NoErr == [type |-> "None", msg |-> <<>>, at |-> "None"]
NoOutcome == [ok |-> FALSE, msg |-> "None", should_stop |-> FALSE, infra |-> FALSE]

\* ------------------------------------------------------------------------
\* Configuration values (class Config)
\* ------------------------------------------------------------------------
INTERVAL_SECONDS == 2
RANDOM_INTERVAL_MIN == 1
RANDOM_INTERVAL_MAX == 5

REGION_VALUE == "na"
MEMBER_CODE_VALUE == "member"

\* "a<br>b": the expected markup, with an embedded line break token.
EXPECTED_POPUP_MESSAGE_HTML == <<"a", "<br>", "b">>

Whitespace == {" ", "\n"}

\* Values the page can hand back.
RegionReadbacks == {REGION_VALUE, "eu"}
MemberReadbacks == {MEMBER_CODE_VALUE, "other"}
Codes == {"code1"}
CouponReadbacks == Codes \cup {"garbled"}
Markups ==
    { EXPECTED_POPUP_MESSAGE_HTML,
      <<" ">> \o EXPECTED_POPUP_MESSAGE_HTML,
      EXPECTED_POPUP_MESSAGE_HTML \o <<"\n">>,
      <<"a", " ", "b">>,
      <<"used">>,
      <<>> }

\* Proxy pools the configuration may hold (entries are token sequences).
Pools ==
    { <<>>,
      << <<" ">> >>,
      << <<"h">>, <<" ", "socks5", ":", "/", "/", "h">> >> }

\* Values DEBUG_COUPON_CODE may be configured with (token sequences).
Overrides ==
    { <<>>, <<" ">>, <<"X", "Y">>, <<" ", "X", "Y", "\n">> }

\* Values SCREENSHOT_POLICY may be configured with (token sequences).
Policies ==
    { <<"never">>, <<"unexpected">>, <<"always">>,
      <<" ", "ALWAYS", "\n">>,
      <<"sometimes">> }

\* ------------------------------------------------------------------------
\* Errors.  type is the exception class, msg is str(err) cut into tokens
\* (a marker of the classifier is one token).
\* ------------------------------------------------------------------------
TimeoutErr == [type |-> "PlaywrightTimeoutError", msg |-> <<"Timeout", "10000ms", "exceeded">>]
NetErr     == [type |-> "Error", msg |-> <<"page.goto:", "net::ERR_PROXY", "_CONNECTION_FAILED">>]
PlainErr   == [type |-> "Error", msg |-> <<"Target", "closed">>]
RuntimeErr == [type |-> "RuntimeError", msg |-> <<"readback", "differs">>]
HttpErr    == [type |-> "HTTPError", msg |-> <<"500", "Server", "Error">>]
HttpProxyErr == [type |-> "ProxyError", msg |-> <<"Caused", "by", "Proxy", "Error">>]

\* What a browser call can raise, what page.screenshot / mkdir can raise,
\* what requests.post(...).raise_for_status() can raise.
PwErrors   == {TimeoutErr, NetErr, PlainErr}
ShotErrors == {TimeoutErr, PlainErr}
PostErrors == {HttpErr, HttpProxyErr}

\* ------------------------------------------------------------------------
\* Pure helpers
\* ------------------------------------------------------------------------
RECURSIVE LStrip(_)
LStrip(s) ==
    IF s # <<>> /\ Head(s) \in Whitespace THEN LStrip(Tail(s)) ELSE s

RECURSIVE RStrip(_)
RStrip(s) ==
    IF s # <<>> /\ s[Len(s)] \in Whitespace
    THEN RStrip(SubSeq(s, 1, Len(s) - 1))
    ELSE s

\* A plausible slip: trimming on the left only.
StripLeftOnly(s) == LStrip(s)

\* str.strip()
Strip(s) == RStrip(LStrip(s))

\* sub in s
Contains(s, sub) ==
    \E i \in 1..(Len(s) - Len(sub) + 1) : SubSeq(s, i, i + Len(sub) - 1) = sub

\* A plausible slip: the scheme is put in front without looking for one.
_normalize_socks5_proxy_AlwaysPrefix(server) ==
    LET s == Strip(server) IN
    IF s = <<>> THEN s
    ELSE <<"socks5", ":", "/", "/">> \o s

_normalize_socks5_proxy(server) ==
    LET s == Strip(server) IN
    IF s = <<>> THEN s
    ELSE IF ~Contains(s, <<":", "/", "/">>) THEN <<"socks5", ":", "/", "/">> \o s
    ELSE s

\* The proxy_server values random.choice can lead to (None: direct).
\* NoProxy stands for None (an empty server string is mapped to None).
_pick_playwright_socks5_proxy(pool) ==
    IF pool = <<>> THEN {NoProxy}
    ELSE { _normalize_socks5_proxy(pool[i]) : i \in 1..Len(pool) }

\* The exception e as raised by the step at position step.
Raised(e, step) == [type |-> e.type, msg |-> e.msg, at |-> step]

markers ==
    << "net::ERR_PROXY",
       "net::ERR_NO_SUPPORTED_PROXIES",
       "net::ERR_TUNNEL_CONNECTION_FAILED",
       "net::ERR_SOCKS_CONNECTION_FAILED",
       "net::ERR_CONNECTION_RESET",
       "net::ERR_CONNECTION_CLOSED",
       "net::ERR_CONNECTION_REFUSED",
       "net::ERR_ADDRESS_UNREACHABLE",
       "net::ERR_NAME_NOT_RESOLVED",
       "net::ERR_TIMED_OUT",
       "net::ERR_EMPTY_RESPONSE",
       "Proxy" >>

\* any(m in msg for m in markers)
_is_proxyish_playwright_error(err) ==
    \E k \in 1..Len(markers) : Contains(err.msg, <<markers[k]>>)

\* str.lower() on one token.
LowerToken(t) ==
    CASE t = "ALWAYS" -> "always"
      [] t = "NEVER" -> "never"
      [] t = "UNEXPECTED" -> "unexpected"
      [] OTHER -> t

\* str.lower()
Lower(s) == [i \in 1..Len(s) |-> LowerToken(s[i])]

_normalize_screenshot_policy(policy) ==
    LET p == Lower(Strip(policy)) IN
    IF p \in {<<"never">>, <<"unexpected">>, <<"always">>} THEN p
    ELSE <<"unexpected">>

_should_capture_screenshot(policy, unexpected) ==
    LET p == _normalize_screenshot_policy(policy) IN
    IF p = <<"never">> THEN FALSE
    ELSE IF p = <<"always">> THEN TRUE
    ELSE unexpected

\* random.randint(a, b): both ends included.
randint(a, b) == a..b

\* A plausible slip: the base interval is left out of the delay.
get_randomized_interval_NoBase(base, min_extra, max_extra) ==
    { extra : extra \in randint(min_extra, max_extra) }

get_randomized_interval(base, min_extra, max_extra) ==
    { base + extra : extra \in randint(min_extra, max_extra) }

\* Results of a side effect: performed, not attempted, or an error.
Done    == [type |-> "done", msg |-> <<>>]
Skipped == [type |-> "skipped", msg |-> <<>>]

\* capture_screenshot_if_needed: what the call can come to.
capture_screenshot_if_needed(policy, unexpected) ==
    IF _should_capture_screenshot(policy, unexpected)
    THEN {Done} \cup ShotErrors
    ELSE {Skipped}

\* send_discord: nothing without a webhook URL; otherwise one POST, whose
\* failure (transport error, non-2xx via raise_for_status) is raised.
send_discord(webhook_url) ==
    IF webhook_url THEN {Done} \cup PostErrors ELSE {Skipped}

Outcome(ok, msg, should_stop, infra) ==
    [ok |-> ok, msg |-> msg, should_stop |-> should_stop, infra |-> infra]

\* ------------------------------------------------------------------------
\* Coupon generation (generate_coupon_code)
\* ------------------------------------------------------------------------
\* The two character sets, cut down to a few characters each; ALPHANUM is
\* LETTERS followed by the digits, as in the source.
LETTERS == <<"A", "B", "C">>
ALPHANUM == LETTERS \o <<"0", "1">>

\* range(5), twice: the alphanumeric and the letters-only segment.
AlnumPositions == 5
LetterPositions == 5

\* Draws per position and whole-string restarts explored (range(300) in
\* the source, for both).
PickTries == 2
Restarts == 2

\* Calls of _get_coupon_for_run explored (one per attempt).
MaxCalls == 2

Range(seq) == { seq[i] : i \in 1..Len(seq) }

NoCounts == [ch \in Range(ALPHANUM) |-> 0]

\* A plausible slip: the occurrence test lets a third occurrence through.
can_use_AllowThree(ch, prev, counts) ==
    /\ ~(prev # None /\ ch = prev)
    /\ ~(counts[ch] > 2)

\* lines 243-248
can_use(ch, prev, counts) ==
    /\ ~(prev # None /\ ch = prev)
    /\ ~(counts[ch] >= 2)

\* The charset of the position that follows the characters in out.
CharsetAt(out) == IF Len(out) < AlnumPositions THEN ALPHANUM ELSE LETTERS

\* calls: calls of _get_coupon_for_run so far; invoked: the generator was
\* entered in the current call; is_debug: the flag returned with the code.
GenIdle ==
    [pc |-> "idle", out |-> <<>>, counts |-> NoCounts, prev |-> None,
     tries |-> 0, attempt |-> 0, result |-> <<>>,
     calls |-> 0, invoked |-> FALSE, is_debug |-> FALSE]

\* _get_coupon_for_run has just been called, for the n-th time.
GenCalled(n) == [GenIdle EXCEPT !.pc = "call", !.calls = n]

\* ------------------------------------------------------------------------
\* Proxy selection (_pick_playwright_socks5_proxy), the error summary
\* (_one_line_error) and the proxy tester (proxy-checker.py): not started
\* ------------------------------------------------------------------------
\* None, for the proxy descriptor (a dict otherwise).
NoDescriptor == <<>>

SelIdle ==
    [pc |-> "idle", choice |-> <<>>, server |-> NoProxy, proxy |-> NoDescriptor]

\* text: str(e), character by character; tname: type(e).__name__;
\* is_proxyish, proxy_load_error: the locals of run_once at line 512;
\* body, trace: the returned message after its prefix, and whether
\* traceback.format_exc() is part of it; dbg_trace: the same for the text
\* handed to send_discord.
SummaryIdle ==
    [pc |-> "idle", text |-> <<>>, tname |-> <<>>, is_proxyish |-> FALSE,
     proxy_load_error |-> FALSE, verbose |-> FALSE, always |-> FALSE,
     kind |-> "None", body |-> <<>>, trace |-> FALSE, dbg_trace |-> FALSE,
     infra |-> FALSE]

\* proxies, retries: the parsed list and RETRIES_PER_PROXY; idx, attempt,
\* success, good_lines, total_attempts_per_proxy: main's locals (good_lines
\* as positions in the list); events: what main has done so far, in order.
TesterIdle ==
    [pc |-> "idle", proxies |-> <<>>, retries |-> 0,
     total_attempts_per_proxy |-> 0, idx |-> 0, attempt |-> 0,
     success |-> FALSE, good_lines |-> <<>>, events |-> <<>>,
     written |-> <<>>]

\* ------------------------------------------------------------------------
\* State
\* ------------------------------------------------------------------------
VARIABLES
    cfg,                \* the immutable configuration
    pc,                 \* position of the single thread of control
    run_count,          \* main: run_count
    ret,                \* main: (ok, msg, should_stop, proxy_load_error) of the last returned attempt
    logs,               \* status lines printed so far
    slept,              \* sleeps performed since the last attempt returned
    wait_time,          \* main: wait_time
    exit_code,          \* process exit status once it has ended
    uncaught,           \* where an exception left the program uncaught
    proxy_server,       \* run_once locals ...
    proxy_load_error,
    open_browsers,      \* browsers launched and not closed
    open_contexts,      \* browser contexts created and not closed
    selected,
    member_val,
    coupon_code_used,
    coupon_val,
    clicks,             \* redeem clicks performed in this attempt
    popup,              \* "none" | "on" | "timeout"
    popup_raw,          \* markup as returned by inner_html
    popup_html,         \* markup after .strip()
    is_expected_failure,\* meaningful once popup_read
    popup_read,         \* inner_html has returned
    shots,              \* screenshots captured in this attempt
    posts,              \* webhook POSTs issued in this attempt
    exc,                \* exception being handled / propagating
    pending,            \* value of the return statement waiting for finally
    gen,                \* generate_coupon_code: position and locals of a call
    sel,                \* _pick_playwright_socks5_proxy: position and locals of a call
    summary,            \* the except clause building its message: inputs and result
    tester              \* proxy-checker.py main: position and locals

sched == <<cfg, run_count, ret, logs, slept, wait_time, exit_code, uncaught>>
locals == <<proxy_server, proxy_load_error, open_browsers, open_contexts,
            selected, member_val, coupon_code_used, coupon_val, clicks,
            popup, popup_raw, popup_html, is_expected_failure, popup_read,
            shots, posts,
            exc, pending>>
\* State of the functions and of the tester followed on their own.
side == <<gen, sel, summary, tester>>
vars == <<pc, sched, locals, side>>

Configs ==
    [RUN_ONCE : BOOLEAN, STOP_ON_UNEXPECTED : BOOLEAN,
     ALWAYS_SEND_DISCORD : BOOLEAN, DISCORD_WEBHOOK_URL : BOOLEAN,
     SCREENSHOT_POLICY : Policies, SOCKS5_PROXIES : Pools,
     DEBUG_COUPON_CODE : {<<>>},
     SOCKS5_USERNAME : {<<>>}, SOCKS5_PASSWORD : {<<>>}]

\* run_once, lines 332-335 and 358-359: fresh locals for an attempt.
ResetLocals ==
    /\ proxy_server' = NoProxy
    /\ proxy_load_error' = FALSE
    /\ selected' = None
    /\ member_val' = None
    /\ coupon_code_used' = None
    /\ coupon_val' = None
    /\ clicks' = 0
    /\ popup' = "none"
    /\ popup_raw' = NoMarkup
    /\ popup_html' = NoMarkup
    /\ is_expected_failure' = FALSE
    /\ popup_read' = FALSE
    /\ shots' = 0
    /\ posts' = 0
    /\ exc' = NoErr
    /\ pending' = NoOutcome

\* main, line 551, and the locals of run_once before the first attempt.
InitMain ==
    /\ pc = "loop"
    /\ run_count = 0
    /\ ret = NoOutcome
    /\ logs = 0
    /\ slept = 0
    /\ wait_time = 0
    /\ exit_code = -1
    /\ uncaught = None
    /\ proxy_server = NoProxy
    /\ proxy_load_error = FALSE
    /\ open_browsers = 0
    /\ open_contexts = 0
    /\ selected = None
    /\ member_val = None
    /\ coupon_code_used = None
    /\ coupon_val = None
    /\ clicks = 0
    /\ popup = "none"
    /\ popup_raw = NoMarkup
    /\ popup_html = NoMarkup
    /\ is_expected_failure = FALSE
    /\ popup_read = FALSE
    /\ shots = 0
    /\ posts = 0
    /\ exc = NoErr
    /\ pending = NoOutcome

Init ==
    /\ cfg \in Configs
    /\ InitMain
    /\ gen = GenIdle
    /\ sel = SelIdle
    /\ summary = SummaryIdle
    /\ tester = TesterIdle

\* ------------------------------------------------------------------------
\* run_once
\* ------------------------------------------------------------------------
session == <<open_browsers, open_contexts>>
form == <<selected, member_val, coupon_code_used, coupon_val, clicks>>
popupv == <<popup, popup_raw, popup_html, is_expected_failure, popup_read>>
effects == <<shots, posts>>

\* An exception leaves run_once and, main having no handler, the process.
Crash ==
    /\ pc' = "crashed"
    /\ uncaught' = "run_once"
    /\ exit_code' = 1

\* An exception raised inside the try block reaches the except clause.
RaiseInTry(e) ==
    /\ exc' = Raised(e, pc)
    /\ pc' = "except"

\* A plausible slip: the iteration entered by the zero-delay retry is not
\* counted.
StartAttempt_RetryUncounted ==
    /\ pc = "loop"
    /\ run_count < MaxRuns
    /\ logs < MaxRuns
    /\ run_count' = IF ret.infra THEN run_count ELSE run_count + 1
    /\ ResetLocals
    /\ pc' = "pick"
    /\ UNCHANGED <<cfg, ret, logs, slept, wait_time, exit_code, uncaught, session>>
    /\ UNCHANGED side

\* main, lines 553-556: count the iteration and enter run_once.
StartAttempt ==
    /\ pc = "loop"
    /\ run_count < MaxRuns
    /\ run_count' = run_count + 1
    /\ ResetLocals
    /\ pc' = "pick"
    /\ UNCHANGED <<cfg, ret, logs, slept, wait_time, exit_code, uncaught, session>>
    /\ UNCHANGED side

\* line 338
PickProxy ==
    /\ pc = "pick"
    /\ proxy_server' \in _pick_playwright_socks5_proxy(cfg.SOCKS5_PROXIES)
    /\ pc' = "launch"
    /\ UNCHANGED <<sched, proxy_load_error, session, form, popupv, effects, exc, pending>>
    /\ UNCHANGED side

\* lines 341-351: the launch is outside the try/finally; a failure is
\* printed and re-raised.
Launch ==
    /\ pc = "launch"
    /\ \/ /\ open_browsers' = open_browsers + 1
          /\ pc' = "new_context"
          /\ UNCHANGED <<proxy_load_error, exc, exit_code, uncaught>>
       \/ \E e \in PwErrors :
          /\ proxy_load_error' = (proxy_server # NoProxy)
          /\ exc' = Raised(e, pc)
          /\ Crash
          /\ UNCHANGED open_browsers
    /\ UNCHANGED <<cfg, run_count, ret, logs, slept, wait_time, proxy_server,
                   open_contexts, form, popupv, effects, pending>>
    /\ UNCHANGED side

\* lines 353-356: new_context / new_page, also outside the try/finally.
NewContext ==
    /\ pc = "new_context"
    /\ \/ /\ open_contexts' = open_contexts + 1
          /\ pc' = "goto"
          /\ UNCHANGED <<exc, exit_code, uncaught>>
       \/ \E e \in PwErrors, created \in BOOLEAN :
          \* created: new_context returned and new_page raised
          /\ open_contexts' = IF created THEN open_contexts + 1 ELSE open_contexts
          /\ exc' = Raised(e, pc)
          /\ Crash
    /\ UNCHANGED <<cfg, run_count, ret, logs, slept, wait_time, proxy_server,
                   proxy_load_error, open_browsers, form, popupv, effects, pending>>
    /\ UNCHANGED side

\* A plausible slip: the inner handlers flag the proxy error and forget to
\* re-raise, so the attempt goes on with proxy_load_error set.
Goto_NoReraise ==
    /\ pc = "goto"
    /\ \/ /\ pc' = "ready"
          /\ UNCHANGED <<proxy_load_error, exc>>
       \/ \E e \in PwErrors :
          /\ proxy_load_error' =
                IF e.type = "PlaywrightTimeoutError"
                THEN (proxy_server # NoProxy)
                ELSE (proxy_server # NoProxy /\ _is_proxyish_playwright_error(e))
          /\ pc' = "ready"
          /\ UNCHANGED exc
    /\ UNCHANGED <<sched, proxy_server, session, form, popupv, effects, pending>>
    /\ UNCHANGED side

\* lines 362-383: navigate; the inner handlers flag proxy errors and re-raise.
Goto ==
    /\ pc = "goto"
    /\ \/ /\ pc' = "ready"
          /\ UNCHANGED <<proxy_load_error, exc>>
       \/ \E e \in PwErrors :
          /\ proxy_load_error' =
                IF e.type = "PlaywrightTimeoutError"
                THEN (proxy_server # NoProxy)
                ELSE (proxy_server # NoProxy /\ _is_proxyish_playwright_error(e))
          /\ RaiseInTry(e)
    /\ UNCHANGED <<sched, proxy_server, session, form, popupv, effects, pending>>
    /\ UNCHANGED side

\* lines 385-388: health check and popup root presence.
WaitPageReady ==
    /\ pc = "ready"
    /\ \/ /\ pc' = "region"
          /\ UNCHANGED exc
       \/ \E e \in PwErrors : RaiseInTry(e)
    /\ UNCHANGED <<sched, proxy_server, proxy_load_error, session, form, popupv,
                   effects, pending>>
    /\ UNCHANGED side

\* lines 390-395
SelectRegion ==
    /\ pc = "region"
    /\ \/ \E r \in RegionReadbacks :
          /\ selected' = r
          /\ IF r # REGION_VALUE
             THEN RaiseInTry(RuntimeErr)
             ELSE pc' = "member" /\ UNCHANGED exc
       \/ \E e \in PwErrors : RaiseInTry(e) /\ UNCHANGED selected
    /\ UNCHANGED <<sched, proxy_server, proxy_load_error, session, member_val,
                   coupon_code_used, coupon_val, clicks, popupv, effects, pending>>
    /\ UNCHANGED side

\* lines 397-402
FillMember ==
    /\ pc = "member"
    /\ \/ \E r \in MemberReadbacks :
          /\ member_val' = r
          /\ IF r # MEMBER_CODE_VALUE
             THEN RaiseInTry(RuntimeErr)
             ELSE pc' = "coupon" /\ UNCHANGED exc
       \/ \E e \in PwErrors : RaiseInTry(e) /\ UNCHANGED member_val
    /\ UNCHANGED <<sched, proxy_server, proxy_load_error, session, selected,
                   coupon_code_used, coupon_val, clicks, popupv, effects, pending>>
    /\ UNCHANGED side

\* lines 404-405: a code, or RuntimeError when the generator gives up
\* (_get_coupon_for_run itself is followed step by step under GenSpec).
GetCoupon ==
    /\ pc = "coupon"
    /\ \/ \E c \in Codes :
          /\ coupon_code_used' = c
          /\ pc' = "fill_coupon"
          /\ UNCHANGED exc
       \/ RaiseInTry(RuntimeErr) /\ UNCHANGED coupon_code_used
    /\ UNCHANGED <<sched, proxy_server, proxy_load_error, session, selected,
                   member_val, coupon_val, clicks, popupv, effects, pending>>
    /\ UNCHANGED side

\* A plausible slip: the coupon readback is read but not compared.
FillCoupon_NoVerify ==
    /\ pc = "fill_coupon"
    /\ \/ \E r \in CouponReadbacks :
          /\ coupon_val' = r
          /\ pc' = "click"
          /\ UNCHANGED exc
       \/ \E e \in PwErrors : RaiseInTry(e) /\ UNCHANGED coupon_val
    /\ UNCHANGED <<sched, proxy_server, proxy_load_error, session, selected,
                   member_val, coupon_code_used, clicks, popupv, effects, pending>>
    /\ UNCHANGED side

\* lines 407-412
FillCoupon ==
    /\ pc = "fill_coupon"
    /\ \/ \E r \in CouponReadbacks :
          /\ coupon_val' = r
          /\ IF r # coupon_code_used
             THEN RaiseInTry(RuntimeErr)
             ELSE pc' = "click" /\ UNCHANGED exc
       \/ \E e \in PwErrors : RaiseInTry(e) /\ UNCHANGED coupon_val
    /\ UNCHANGED <<sched, proxy_server, proxy_load_error, session, selected,
                   member_val, coupon_code_used, clicks, popupv, effects, pending>>
    /\ UNCHANGED side

\* lines 414-416: the click may have been dispatched when page.click raises.
ClickRedeem ==
    /\ pc = "click"
    /\ \/ /\ clicks' = clicks + 1
          /\ pc' = "popup_wait"
          /\ UNCHANGED exc
       \/ \E e \in PwErrors, dispatched \in BOOLEAN :
          /\ clicks' = IF dispatched THEN clicks + 1 ELSE clicks
          /\ RaiseInTry(e)
    /\ UNCHANGED <<sched, proxy_server, proxy_load_error, session, selected,
                   member_val, coupon_code_used, coupon_val, popupv, effects, pending>>
    /\ UNCHANGED side

\* lines 418-421: only PlaywrightTimeoutError is caught by the inner handler.
WaitPopup ==
    /\ pc = "popup_wait"
    /\ \/ /\ popup' = "on"
          /\ pc' = "classify"
          /\ UNCHANGED exc
       \/ /\ popup' = "timeout"
          /\ pc' = "popup_timeout"
          /\ UNCHANGED exc
       \/ \E e \in PwErrors \ {TimeoutErr} : RaiseInTry(e) /\ UNCHANGED popup
    /\ UNCHANGED <<sched, proxy_server, proxy_load_error, session, form,
                   popup_raw, popup_html, is_expected_failure, popup_read,
                   effects, pending>>
    /\ UNCHANGED side

\* lines 421-441: the popup did not become active within its timeout.
PopupNotOn ==
    /\ pc = "popup_timeout"
    /\ \E s \in capture_screenshot_if_needed(cfg.SCREENSHOT_POLICY, FALSE) :
       IF s \in ShotErrors
       THEN RaiseInTry(s) /\ UNCHANGED <<shots, posts, pending>>
       ELSE /\ shots' = IF s = Done THEN shots + 1 ELSE shots
            /\ \E n \in send_discord(cfg.DISCORD_WEBHOOK_URL /\ cfg.ALWAYS_SEND_DISCORD) :
               /\ posts' = IF n = Skipped THEN posts ELSE posts + 1
               /\ IF n \in PostErrors
                  THEN RaiseInTry(n) /\ UNCHANGED pending
                  ELSE /\ pending' = Outcome(FALSE, "PopupNotActivated", FALSE,
                                             proxy_load_error)
                       /\ pc' = "finally"
                       /\ UNCHANGED exc
    /\ UNCHANGED <<sched, proxy_server, proxy_load_error, session, form, popupv>>
    /\ UNCHANGED side

\* A plausible slip: an unexpected popup stops the run whatever the flag.
ClassifyOutcome_StopRegardless(unexpected, stop_on_unexpected, infra) ==
    IF unexpected
    THEN Outcome(FALSE, "Unexpected", TRUE, infra)
    ELSE Outcome(TRUE, "ExpectedFailure", FALSE, infra)

\* lines 504-508: the two return statements after the popup was handled.
ClassifyOutcome(unexpected, stop_on_unexpected, infra) ==
    IF unexpected /\ stop_on_unexpected
    THEN Outcome(FALSE, "Unexpected", TRUE, infra)
    ELSE Outcome(TRUE, IF unexpected THEN "Unexpected" ELSE "ExpectedFailure",
                 FALSE, infra)

\* lines 443-508: read the popup markup, classify, screenshot, notify, return.
ClassifyPopup ==
    /\ pc = "classify"
    /\ \/ \E e \in PwErrors :
          /\ RaiseInTry(e)
          /\ UNCHANGED <<popup_raw, popup_html, is_expected_failure, popup_read,
                         shots, posts, pending>>
       \/ \E raw \in Markups :
          LET html == Strip(raw)
              expected == (html = EXPECTED_POPUP_MESSAGE_HTML)
              unexpected == ~expected
          IN
          /\ popup_raw' = raw
          /\ popup_html' = html
          /\ is_expected_failure' = expected
          /\ popup_read' = TRUE
          /\ \E s \in capture_screenshot_if_needed(cfg.SCREENSHOT_POLICY, unexpected) :
             IF s \in ShotErrors
             THEN RaiseInTry(s) /\ UNCHANGED <<shots, posts, pending>>
             ELSE /\ shots' = IF s = Done THEN shots + 1 ELSE shots
                  /\ \E n \in send_discord(cfg.DISCORD_WEBHOOK_URL
                                           /\ (cfg.ALWAYS_SEND_DISCORD \/ unexpected)) :
                     /\ posts' = IF n = Skipped THEN posts ELSE posts + 1
                     /\ IF n \in PostErrors
                        THEN RaiseInTry(n) /\ UNCHANGED pending
                        ELSE /\ pending' = ClassifyOutcome(unexpected,
                                                cfg.STOP_ON_UNEXPECTED, proxy_load_error)
                             /\ pc' = "finally"
                             /\ UNCHANGED exc
    /\ UNCHANGED <<sched, proxy_server, proxy_load_error, session, form, popup>>
    /\ UNCHANGED side

\* A plausible slip: only a timeout of the navigation step counts.
is_proxyish_NavTimeoutOnly(server, e) ==
    /\ server # NoProxy
    /\ \/ (e.type = "PlaywrightTimeoutError" /\ e.at = "goto")
       \/ _is_proxyish_playwright_error(e)

\* A plausible slip: the proxy-used test is left out of the classification.
is_proxyish_AnyConnection(server, e) ==
    e.type = "PlaywrightTimeoutError" \/ _is_proxyish_playwright_error(e)

\* line 512: the classification of a caught error.
is_proxyish(server, e) ==
    /\ server # NoProxy
    /\ (e.type = "PlaywrightTimeoutError" \/ _is_proxyish_playwright_error(e))

\* lines 510-531: the except clause of the attempt.
HandleException ==
    /\ pc = "except"
    /\ IF is_proxyish(proxy_server, exc)
       THEN /\ proxy_load_error' = TRUE
            /\ pending' = Outcome(FALSE, "ProxyFail", FALSE, TRUE)
            /\ UNCHANGED <<posts, exc>>
       ELSE /\ \E n \in send_discord(cfg.DISCORD_WEBHOOK_URL /\ cfg.ALWAYS_SEND_DISCORD) :
               /\ posts' = IF n = Skipped THEN posts ELSE posts + 1
               /\ IF n \in PostErrors
                  THEN \* raised inside the handler: no return value, it propagates
                       exc' = Raised(n, pc) /\ pending' = NoOutcome
                  ELSE /\ pending' = Outcome(FALSE, "Exception", FALSE, proxy_load_error)
                       /\ UNCHANGED exc
            /\ UNCHANGED proxy_load_error
    /\ pc' = "finally"
    /\ UNCHANGED <<sched, proxy_server, session, form, popupv, shots>>
    /\ UNCHANGED side

\* lines 533-535: context.close() then browser.close(); an error in either
\* replaces the pending return and leaves run_once.
Finally ==
    /\ pc = "finally"
    /\ \/ \E e \in PwErrors :
          \* context.close() raises: browser.close() is not reached
          /\ exc' = Raised(e, pc)
          /\ Crash
          /\ UNCHANGED <<open_browsers, open_contexts, ret, slept>>
       \/ \E e \in PwErrors :
          \* browser.close() raises
          /\ open_contexts' = open_contexts - 1
          /\ exc' = Raised(e, pc)
          /\ Crash
          /\ UNCHANGED <<open_browsers, ret, slept>>
       \/ /\ open_contexts' = open_contexts - 1
          /\ open_browsers' = open_browsers - 1
          /\ IF pending = NoOutcome
             THEN Crash /\ UNCHANGED <<ret, slept>>
             ELSE /\ ret' = pending
                  /\ slept' = 0
                  /\ pc' = "log"
                  /\ UNCHANGED <<exit_code, uncaught>>
          /\ UNCHANGED exc
    /\ UNCHANGED <<cfg, run_count, logs, wait_time, proxy_server, proxy_load_error,
                   form, popupv, effects, pending>>
    /\ UNCHANGED side

\* ------------------------------------------------------------------------
\* main
\* ------------------------------------------------------------------------
\* lines 557-561: the status line of the attempt.
LogStatus ==
    /\ pc = "log"
    /\ logs' = logs + 1
    /\ pc' = "decide"
    /\ UNCHANGED <<cfg, run_count, ret, slept, wait_time, exit_code, uncaught, locals>>
    /\ UNCHANGED side

\* lines 563-565
MainStop ==
    /\ pc = "decide"
    /\ ret.should_stop
    /\ pc' = "exited"
    /\ exit_code' = 2
    /\ UNCHANGED <<cfg, run_count, ret, logs, slept, wait_time, uncaught, locals>>
    /\ UNCHANGED side

\* A plausible slip: the single-run test placed before the stop test.
MainBreak_BeforeStop ==
    /\ pc = "decide"
    /\ cfg.RUN_ONCE
    /\ pc' = "exited"
    /\ exit_code' = 0
    /\ UNCHANGED <<cfg, run_count, ret, logs, slept, wait_time, uncaught, locals>>
    /\ UNCHANGED side

\* lines 567-568: break, and the process ends normally.
MainBreak ==
    /\ pc = "decide"
    /\ ~ret.should_stop
    /\ cfg.RUN_ONCE
    /\ pc' = "exited"
    /\ exit_code' = 0
    /\ UNCHANGED <<cfg, run_count, ret, logs, slept, wait_time, uncaught, locals>>
    /\ UNCHANGED side

\* A plausible slip: the infrastructure retry still goes through the sleep.
MainContinue_Sleeps ==
    /\ pc = "decide"
    /\ ~ret.should_stop
    /\ ~cfg.RUN_ONCE
    /\ ret.infra
    /\ pc' = "sleep"
    /\ UNCHANGED <<sched, locals>>
    /\ UNCHANGED side

\* A plausible slip: the infrastructure retry tested before single-run mode.
MainContinue_BeforeRunOnce ==
    /\ pc = "decide"
    /\ ~ret.should_stop
    /\ ret.infra
    /\ pc' = "loop"
    /\ UNCHANGED <<sched, locals>>
    /\ UNCHANGED side

\* A plausible slip: the zero-delay retry is given up after one retry.
MainContinue_OneRetry ==
    /\ pc = "decide"
    /\ ~ret.should_stop
    /\ ~cfg.RUN_ONCE
    /\ ret.infra
    /\ run_count < 2
    /\ pc' = "loop"
    /\ UNCHANGED <<sched, locals>>
    /\ UNCHANGED side

\* lines 570-573
MainContinue ==
    /\ pc = "decide"
    /\ ~ret.should_stop
    /\ ~cfg.RUN_ONCE
    /\ ret.infra
    /\ pc' = "loop"
    /\ UNCHANGED <<sched, locals>>
    /\ UNCHANGED side

\* line 575
MainWait ==
    /\ pc = "decide"
    /\ ~ret.should_stop
    /\ ~cfg.RUN_ONCE
    /\ ~ret.infra
    /\ wait_time' \in get_randomized_interval(INTERVAL_SECONDS, RANDOM_INTERVAL_MIN,
                                              RANDOM_INTERVAL_MAX)
    /\ pc' = "sleep"
    /\ UNCHANGED <<cfg, run_count, ret, logs, slept, exit_code, uncaught, locals>>
    /\ UNCHANGED side

\* line 577
Sleep ==
    /\ pc = "sleep"
    /\ slept' = slept + 1
    /\ pc' = "loop"
    /\ UNCHANGED <<cfg, run_count, ret, logs, wait_time, exit_code, uncaught, locals>>
    /\ UNCHANGED side

Next ==
    \/ StartAttempt
    \/ PickProxy
    \/ Launch
    \/ NewContext
    \/ Goto
    \/ WaitPageReady
    \/ SelectRegion
    \/ FillMember
    \/ GetCoupon
    \/ FillCoupon
    \/ ClickRedeem
    \/ WaitPopup
    \/ PopupNotOn
    \/ ClassifyPopup
    \/ HandleException
    \/ Finally
    \/ LogStatus
    \/ MainStop
    \/ MainBreak
    \/ MainContinue
    \/ MainWait
    \/ Sleep

Spec == Init /\ [][Next]_vars

TypeOK ==
    /\ cfg \in Configs
    /\ run_count \in 0..MaxRuns
    /\ open_browsers \in 0..MaxRuns
    /\ open_contexts \in 0..MaxRuns
    /\ clicks \in 0..1
    /\ posts \in 0..2
    /\ shots \in 0..1

\* ------------------------------------------------------------------------
\* generate_coupon_code, called on its own
\* ------------------------------------------------------------------------
main_vars == <<pc, sched, locals>>
gen_frame == <<main_vars, sel, summary, tester>>

\* A plausible slip: the override is returned as configured, untrimmed.
GetCouponForRun_Untrimmed ==
    /\ gen.pc = "call"
    /\ LET forced == Strip(cfg.DEBUG_COUPON_CODE) IN
       IF forced # <<>>
       THEN gen' = [gen EXCEPT !.pc = "returned",
                               !.result = cfg.DEBUG_COUPON_CODE,
                               !.is_debug = TRUE]
       ELSE gen' = [gen EXCEPT !.pc = "for_attempt", !.invoked = TRUE]
    /\ UNCHANGED gen_frame

\* _get_coupon_for_run, lines 281-285: the trimmed override when it is not
\* empty, otherwise the generator is entered (line 241).
GetCouponForRun ==
    /\ gen.pc = "call"
    /\ LET forced == Strip(cfg.DEBUG_COUPON_CODE) IN
       IF forced # <<>>
       THEN gen' = [gen EXCEPT !.pc = "returned",
                               !.result = forced,
                               !.is_debug = TRUE]
       ELSE gen' = [gen EXCEPT !.pc = "for_attempt", !.invoked = TRUE]
    /\ UNCHANGED gen_frame

\* lines 257-260: next whole-string attempt, with counts cleared.
GenBeginAttempt ==
    /\ gen.pc = "for_attempt"
    /\ gen.attempt < Restarts
    /\ gen' = [gen EXCEPT !.pc = "pick", !.attempt = @ + 1, !.counts = NoCounts,
                          !.out = <<>>, !.prev = None, !.tries = 0]
    /\ UNCHANGED gen_frame

\* lines 250-254 and 262-274: one draw for the current position; a usable
\* character is appended, and the tenth one completes the code.
GenDraw ==
    /\ gen.pc = "pick"
    /\ gen.tries < PickTries
    /\ \E ch \in Range(CharsetAt(gen.out)) :
       IF can_use(ch, gen.prev, gen.counts)
       THEN LET out == Append(gen.out, ch)
                full == Len(out) = AlnumPositions + LetterPositions
            IN  gen' = [gen EXCEPT !.out = out,
                                   !.counts[ch] = @ + 1,
                                   !.prev = ch,
                                   !.tries = 0,
                                   !.pc = IF full THEN "returned" ELSE "pick",
                                   !.result = IF full THEN out ELSE @,
                                   !.is_debug = FALSE]
       ELSE gen' = [gen EXCEPT !.tries = @ + 1]
    /\ UNCHANGED gen_frame

\* lines 255 and 275-276: the position could not be filled; the partial
\* string is dropped and the next attempt starts.
GenStuck ==
    /\ gen.pc = "pick"
    /\ gen.tries = PickTries
    /\ gen' = [gen EXCEPT !.pc = "for_attempt"]
    /\ UNCHANGED gen_frame

\* line 278: the restart budget is used up.
GenExhausted ==
    /\ gen.pc = "for_attempt"
    /\ gen.attempt = Restarts
    /\ gen' = [gen EXCEPT !.pc = "raised"]
    /\ UNCHANGED gen_frame

\* run_once, line 405, in the next attempt: the function is called again,
\* with nothing kept from the call before.
GenNextCall ==
    /\ gen.pc \in {"returned", "raised"}
    /\ gen.calls < MaxCalls
    /\ gen' = GenCalled(gen.calls + 1)
    /\ UNCHANGED gen_frame

\* Configuration as shipped (class Config defaults), for runs of the
\* coupon step alone.
DefaultConfig ==
    [RUN_ONCE |-> FALSE, STOP_ON_UNEXPECTED |-> TRUE,
     ALWAYS_SEND_DISCORD |-> FALSE, DISCORD_WEBHOOK_URL |-> FALSE,
     SCREENSHOT_POLICY |-> <<"unexpected">>,
     SOCKS5_PROXIES |-> << <<"h">>, <<" ", "socks5", ":", "/", "/", "h">> >>,
     DEBUG_COUPON_CODE |-> <<>>,
     SOCKS5_USERNAME |-> <<>>, SOCKS5_PASSWORD |-> <<>>]

GenConfigs == { [DefaultConfig EXCEPT !.DEBUG_COUPON_CODE = d] : d \in Overrides }

GenInit ==
    /\ cfg \in GenConfigs
    /\ InitMain
    /\ gen = GenCalled(1)
    /\ sel = SelIdle
    /\ summary = SummaryIdle
    /\ tester = TesterIdle

GenNext ==
    \/ GetCouponForRun
    \/ GenNextCall
    \/ GenBeginAttempt
    \/ GenDraw
    \/ GenStuck
    \/ GenExhausted

GenSpec == GenInit /\ [][GenNext]_vars

\* The same, with a step taken whenever one is possible (the function runs).
GenFair == GenSpec /\ WF_vars(GenNext)

\* ------------------------------------------------------------------------
\* _pick_playwright_socks5_proxy, called on its own
\* ------------------------------------------------------------------------
\* Longest pool explored.
MaxPoolLen == 2

\* Pool entries: blank, bare, padded, with a scheme, padded with a scheme.
Entries ==
    { <<>>, <<" ">>, <<"h">>, <<" ", "h", "\n">>,
      <<"socks5", ":", "/", "/", "h">>, <<"\n", "http", ":", "/", "/", "h", " ">> }

SelPools == UNION { [1..n -> Entries] : n \in 0..MaxPoolLen }

\* SOCKS5_USERNAME / SOCKS5_PASSWORD: empty or set.
Usernames == { <<>>, <<"user">> }
Passwords == { <<>>, <<"pass">> }

SelConfigs ==
    { [DefaultConfig EXCEPT !.SOCKS5_PROXIES = pool,
                            !.SOCKS5_USERNAME = u,
                            !.SOCKS5_PASSWORD = w] :
        pool \in SelPools, u \in Usernames, w \in Passwords }

sel_frame == <<main_vars, gen, summary, tester>>

\* lines 182-185: no pool, no proxy; otherwise random.choice.
PickChoice ==
    /\ sel.pc = "call"
    /\ IF cfg.SOCKS5_PROXIES = <<>>
       THEN sel' = [sel EXCEPT !.pc = "returned", !.proxy = NoDescriptor,
                               !.server = NoProxy]
       ELSE \E i \in 1..Len(cfg.SOCKS5_PROXIES) :
               sel' = [sel EXCEPT !.pc = "chosen", !.choice = cfg.SOCKS5_PROXIES[i]]
    /\ UNCHANGED sel_frame

\* lines 186-196: normalise; a blank entry gives no proxy; otherwise the
\* descriptor, with the credentials that are configured.
PickDescriptor ==
    /\ sel.pc = "chosen"
    /\ LET server == _normalize_socks5_proxy(sel.choice)
           base == "server" :> server
           withUser == IF cfg.SOCKS5_USERNAME # <<>>
                       THEN base @@ ("username" :> cfg.SOCKS5_USERNAME)
                       ELSE base
           withBoth == IF cfg.SOCKS5_PASSWORD # <<>>
                       THEN withUser @@ ("password" :> cfg.SOCKS5_PASSWORD)
                       ELSE withUser
       IN  IF server = <<>>
           THEN sel' = [sel EXCEPT !.pc = "returned", !.proxy = NoDescriptor,
                                   !.server = NoProxy]
           ELSE sel' = [sel EXCEPT !.pc = "returned", !.proxy = withBoth,
                                   !.server = server]
    /\ UNCHANGED sel_frame

SelInit ==
    /\ cfg \in SelConfigs
    /\ InitMain
    /\ gen = GenIdle
    /\ sel = [SelIdle EXCEPT !.pc = "call"]
    /\ summary = SummaryIdle
    /\ tester = TesterIdle

SelNext ==
    \/ PickChoice
    \/ PickDescriptor

SelSpec == SelInit /\ [][SelNext]_vars

\* ------------------------------------------------------------------------
\* The message of the except clause (_one_line_error, lines 510-531)
\* ------------------------------------------------------------------------
\* _one_line_error's default limit.
limit == 180

\* n times the character c.
Rep(c, n) == [i \in 1..n |-> c]

\* s.replace("\n", " ")
ReplaceNewlines(s) == [i \in 1..Len(s) |-> IF s[i] = "\n" THEN " " ELSE s[i]]

\* A plausible slip: the cut keeps limit characters before the dots.
_one_line_error_CutAtLimit(text, tname, lim) ==
    LET s == Strip(ReplaceNewlines(text))
        t == IF Len(s) > lim THEN SubSeq(s, 1, lim) \o <<".", ".", ".">> ELSE s
    IN  IF t # <<>> THEN t ELSE tname

\* lines 218-222, for an exception with str(e) = text and class name tname.
_one_line_error(text, tname, lim) ==
    LET s == Strip(ReplaceNewlines(text))
        t == IF Len(s) > lim THEN SubSeq(s, 1, lim - 3) \o <<".", ".", ".">> ELSE s
    IN  IF t # <<>> THEN t ELSE tname

\* Lengths of error text around the limit.
TextLengths ==
    { 0, 1, 3, limit - 3, limit - 2, limit - 1, limit, limit + 1, limit + 2,
      limit + 20 }

\* str(e): one line or two, bare or with whitespace around it.
ErrorTexts ==
    { pre \o body \o post :
        pre \in { <<>>, <<" ">>, <<"\n">> },
        post \in { <<>>, <<"\n", " ">> },
        body \in { Rep("x", n) : n \in TextLengths }
                 \cup { <<"x", "\n">> \o Rep("y", n - 2) : n \in TextLengths \ {0, 1} } }

TypeNames == { <<"E", "r", "r", "o", "r">> }

summary_frame == <<main_vars, gen, sel, tester>>

\* lines 510-531: the message the except clause returns.  A failing POST
\* (line 529) is C7's subject and is left out here.
ExceptMessage ==
    /\ summary.pc = "except"
    /\ LET one == _one_line_error(summary.text, summary.tname, limit) IN
       IF summary.is_proxyish
       THEN summary' = [summary EXCEPT !.pc = "returned", !.kind = "ProxyFail",
                                       !.body = one, !.trace = FALSE,
                                       !.dbg_trace = FALSE, !.infra = TRUE]
       ELSE summary' = [summary EXCEPT
                           !.pc = "returned", !.kind = "Exception",
                           !.body = IF summary.verbose THEN summary.text ELSE one,
                           !.trace = summary.verbose,
                           !.dbg_trace = summary.always,
                           !.infra = summary.proxy_load_error]
    /\ UNCHANGED summary_frame

\* An exception reaches the except clause; proxy_load_error is set (lines
\* 365-383) only for errors line 512 classifies as proxy-ish.
SummaryInit ==
    /\ cfg = DefaultConfig
    /\ InitMain
    /\ gen = GenIdle
    /\ sel = SelIdle
    /\ tester = TesterIdle
    /\ \E text \in ErrorTexts, tname \in TypeNames,
          proxyish \in BOOLEAN, ple \in BOOLEAN, verbose \in BOOLEAN, always \in BOOLEAN :
          /\ ple => proxyish
          /\ summary = [SummaryIdle EXCEPT !.pc = "except", !.text = text,
                                           !.tname = tname,
                                           !.is_proxyish = proxyish,
                                           !.proxy_load_error = ple,
                                           !.verbose = verbose,
                                           !.always = always]

SummaryNext == ExceptMessage

SummarySpec == SummaryInit /\ [][SummaryNext]_vars

\* ------------------------------------------------------------------------
\* The proxy tester (src/proxy-checker.py)
\* ------------------------------------------------------------------------
\* Longest proxy list and largest retry setting explored.
MaxProxies == 2
MaxRetries == 2

ProxyLists == UNION { [1..n -> {"a", "b"}] : n \in 0..MaxProxies }
RetrySettings == -1..MaxRetries

max(a, b) == IF a >= b THEN a ELSE b

\* try_proxy_once, lines 109-140: success with a non-empty title, or a
\* failure named after what went wrong; every exception is caught and the
\* close in the finally block is guarded, so it always returns.
try_proxy_once ==
    { [ok |-> TRUE, err |-> "None"],
      [ok |-> FALSE, err |-> "EMPTY_TITLE"],
      [ok |-> FALSE, err |-> "TIMEOUT"],
      [ok |-> FALSE, err |-> "Error"] }

Event(kind, idx, ok) == [kind |-> kind, idx |-> idx, ok |-> ok]

tester_frame == <<main_vars, gen, sel, summary>>

\* lines 144-147
TesterStart ==
    /\ tester.pc = "start"
    /\ tester' = [tester EXCEPT
                     !.pc = "for_proxy",
                     !.good_lines = <<>>,
                     !.total_attempts_per_proxy = 1 + max(tester.retries, 0)]
    /\ UNCHANGED tester_frame

\* lines 155-160, and the end of the loop over the proxies.
NextProxy ==
    /\ tester.pc = "for_proxy"
    /\ IF tester.idx < Len(tester.proxies)
       THEN tester' = [tester EXCEPT !.pc = "for_attempt", !.idx = @ + 1,
                                     !.success = FALSE, !.attempt = 0]
       ELSE tester' = [tester EXCEPT !.pc = "write"]
    /\ UNCHANGED tester_frame

\* lines 162-170: the next attempt of the range, or the range is used up.
TryProxy ==
    /\ tester.pc = "for_attempt"
    /\ IF tester.attempt < tester.total_attempts_per_proxy
       THEN \E r \in try_proxy_once :
               tester' = [tester EXCEPT
                             !.attempt = @ + 1,
                             !.events = Append(@, Event("try", tester.idx, r.ok)),
                             !.success = IF r.ok THEN TRUE ELSE @,
                             !.pc = IF r.ok THEN "record" ELSE "failed"]
       ELSE tester' = [tester EXCEPT !.pc = "record"]
    /\ UNCHANGED tester_frame

\* A plausible slip: the wait follows every failed attempt, the last too.
RetryWait_AfterEveryFailure ==
    /\ tester.pc = "failed"
    /\ tester' = [tester EXCEPT
                     !.events = Append(@, Event("wait", tester.idx, FALSE)),
                     !.pc = "for_attempt"]
    /\ UNCHANGED tester_frame

\* lines 172-175: wait only when an attempt remains.
RetryWait ==
    /\ tester.pc = "failed"
    /\ IF tester.attempt < tester.total_attempts_per_proxy
       THEN tester' = [tester EXCEPT
                          !.events = Append(@, Event("wait", tester.idx, FALSE)),
                          !.pc = "for_attempt"]
       ELSE tester' = [tester EXCEPT !.pc = "for_attempt"]
    /\ UNCHANGED tester_frame

\* lines 177-184: note a good proxy, then the pause between two checks.
RecordProxy ==
    /\ tester.pc = "record"
    /\ tester' = [tester EXCEPT
                     !.good_lines = IF tester.success THEN Append(@, tester.idx) ELSE @,
                     !.events = Append(@, Event("pause", tester.idx, FALSE)),
                     !.pc = "for_proxy"]
    /\ UNCHANGED tester_frame

\* lines 187-192: the file is written when there is something to write.
WriteResults ==
    /\ tester.pc = "write"
    /\ tester' = [tester EXCEPT !.pc = "done", !.written = tester.good_lines]
    /\ UNCHANGED tester_frame

TesterInit ==
    /\ cfg = DefaultConfig
    /\ InitMain
    /\ gen = GenIdle
    /\ sel = SelIdle
    /\ summary = SummaryIdle
    /\ \E proxies \in ProxyLists, retries \in RetrySettings :
          tester = [TesterIdle EXCEPT !.pc = "start", !.proxies = proxies,
                                      !.retries = retries]

TesterNext ==
    \/ TesterStart
    \/ NextProxy
    \/ TryProxy
    \/ RetryWait
    \/ RecordProxy
    \/ WriteResults

TesterSpec == TesterInit /\ [][TesterNext]_vars

\* ------------------------------------------------------------------------
\* Properties
\* ------------------------------------------------------------------------
\* run_once has returned and main holds this attempt's outcome in ret.
Returned == pc \in {"log", "decide"}

\* Control is inside run_once.
InAttempt ==
    pc \in {"pick", "launch", "new_context", "goto", "ready", "region", "member",
            "coupon", "fill_coupon", "click", "popup_wait", "popup_timeout",
            "classify", "except", "finally"}

\* The attempt is over: returned to main, or left by an exception.
AttemptEnded == run_count > 0 /\ ~InAttempt

\* Some readback differed from the value written.
Mismatch ==
    \/ selected \notin {None, REGION_VALUE}
    \/ member_val \notin {None, MEMBER_CODE_VALUE}
    \/ (coupon_val # None /\ coupon_val # coupon_code_used)

\* raw is e with whitespace only before and after it.
IsPadded(raw, e) ==
    \E i \in 0..Len(raw) :
       /\ i + Len(e) <= Len(raw)
       /\ SubSeq(raw, i + 1, i + Len(e)) = e
       /\ \A k \in 1..i : raw[k] \in Whitespace
       /\ \A k \in (i + Len(e) + 1)..Len(raw) : raw[k] \in Whitespace

\* C1: once the scheduler holds an outcome with should_stop set, its next
\* step ends the process with exit code 2, whatever RUN_ONCE and the
\* infrastructure flag say, and an ended process starts no further attempt.
C1_StopEndsProcess ==
    [][ /\ (pc = "decide" /\ ret.should_stop)
            => (pc' = "exited" /\ exit_code' = 2 /\ run_count' = run_count)
        /\ (pc = "exited") => (pc' = "exited" /\ run_count' = run_count) ]_vars

C1_Witness ==
    pc = "exited" /\ exit_code = 2 /\ ret.should_stop /\ cfg.RUN_ONCE

\* C2: an attempt whose popup became active with a message other than the
\* expected one, with STOP_ON_UNEXPECTED on, returns success=false and
\* should_stop=true, whatever the webhook, notify and screenshot settings
\* and whether the screenshot and the POST succeeded.
C2_UnexpectedAlwaysStops ==
    (Returned /\ popup = "on" /\ popup_read /\ ~is_expected_failure
        /\ cfg.STOP_ON_UNEXPECTED)
    => (~ret.ok /\ ret.should_stop)

\* C3: an attempt whose popup became active with a message other than the
\* expected one returns success=false and should_stop equal to
\* STOP_ON_UNEXPECTED.
C3_UnexpectedOutcome ==
    (Returned /\ popup = "on" /\ popup_read /\ ~is_expected_failure)
    => (~ret.ok /\ ret.should_stop = cfg.STOP_ON_UNEXPECTED)

\* C4 as stated: the popup is classified as the expected failure exactly
\* when the markup read, untouched, equals the expected message.
C4_ExactMarkup ==
    popup_read => (is_expected_failure <=> popup_raw = EXPECTED_POPUP_MESSAGE_HTML)

\* C4 amended: the popup is classified as the expected failure exactly when
\* the markup read is the expected message with nothing but whitespace
\* before and after it; an attempt that returns from the classification as
\* an expected failure has success=true, should_stop=false, and every other
\* markup is reported as unexpected.
C4_TrimmedMarkup ==
    /\ popup_read
         => (is_expected_failure
               <=> IsPadded(popup_raw, EXPECTED_POPUP_MESSAGE_HTML))
    /\ (Returned /\ popup_read /\ ret.msg \in {"ExpectedFailure", "Unexpected"})
         => /\ (ret.msg = "ExpectedFailure")
                  <=> IsPadded(popup_raw, EXPECTED_POPUP_MESSAGE_HTML)
            /\ (ret.msg = "ExpectedFailure") => (ret.ok /\ ~ret.should_stop)

C4_Witness ==
    /\ Returned
    /\ popup_read
    /\ popup_raw # EXPECTED_POPUP_MESSAGE_HTML
    /\ is_expected_failure
    /\ ret.msg = "ExpectedFailure"

\* C5: an attempt whose popup-activation wait timed out returns
\* success=false, should_stop=false, infrastructure_failure=false with the
\* popup-not-activated message, and takes no screenshot under policy never.
C5_PopupTimeoutOutcome ==
    (Returned /\ popup = "timeout")
    => /\ ret = Outcome(FALSE, "PopupNotActivated", FALSE, FALSE)
       /\ (cfg.SCREENSHOT_POLICY = <<"never">> => shots = 0)

C7_NeverRaises ==
    /\ uncaught = None
    /\ (pc = "decide" => logs = run_count)

C9_SleepUnlessInfra ==
    (InAttempt /\ run_count > 1)
    => /\ ~cfg.RUN_ONCE
       /\ ~ret.should_stop
       /\ slept = (IF ret.infra THEN 0 ELSE 1)

C9_Witness ==
    pc = "pick" /\ run_count = 2 /\ ret.infra /\ slept = 0

\* C10: the delay the scheduler sleeps is an integer between
\* base + min_extra and base + max_extra, both included, and it is slept
\* only after an outcome that neither stops nor is an infrastructure failure.
C10_DelayWithinBounds ==
    pc = "sleep"
    => /\ wait_time \in Int
       /\ INTERVAL_SECONDS + RANDOM_INTERVAL_MIN <= wait_time
       /\ wait_time <= INTERVAL_SECONDS + RANDOM_INTERVAL_MAX
       /\ ~ret.should_stop
       /\ ~ret.infra

C10_Witness ==
    pc = "sleep" /\ wait_time = INTERVAL_SECONDS + RANDOM_INTERVAL_MAX

\* The process has ended, normally or by an uncaught exception.
ProcessEnded == pc \in {"exited", "crashed"}

\* C11: in single-run mode one attempt is started and no more, whatever
\* its outcome (an infrastructure failure is not retried), nothing is
\* slept, and the process exits with status 0 unless the outcome has
\* should_stop.
C11_SingleRun ==
    cfg.RUN_ONCE
    => /\ run_count <= 1
       /\ slept = 0
       /\ pc # "sleep"
       /\ (pc = "loop" => run_count = 0)
       /\ (pc = "exited" => exit_code = (IF ret.should_stop THEN 2 ELSE 0))

C11_Witness ==
    /\ cfg.RUN_ONCE
    /\ pc = "exited"
    /\ run_count = 1
    /\ ret.infra
    /\ exit_code = 0

\* C12: with single-run mode off the process ends only through an outcome
\* with should_stop set (exit code 2).
C12_EndsOnlyByStop ==
    (~cfg.RUN_ONCE /\ ProcessEnded)
    => (pc = "exited" /\ ret.should_stop /\ exit_code = 2)

\* C13: an outcome flagged as infrastructure failure has success=false and
\* should_stop=false, whatever STOP_ON_UNEXPECTED is.
C13_InfraNeverStops ==
    /\ ret.infra => (~ret.ok /\ ~ret.should_stop)
    /\ pending.infra => (~pending.ok /\ ~pending.should_stop)

C13_Witness ==
    /\ Returned
    /\ ret.infra
    /\ cfg.STOP_ON_UNEXPECTED
    /\ popup_read
    /\ ~is_expected_failure

\* C14: an attempt made without a proxy (empty pool or blank entry) never
\* returns an infrastructure failure, whatever error it met, and the
\* scheduler sleeps before the iteration that follows it.
C14_DirectNeverInfra ==
    /\ (Returned /\ proxy_server = NoProxy) => ~ret.infra
    /\ (pc = "loop" /\ run_count > 0 /\ proxy_server = NoProxy) => slept = 1

C14_Witness ==
    /\ Returned
    /\ cfg.SOCKS5_PROXIES # <<>>
    /\ proxy_server = NoProxy
    /\ _is_proxyish_playwright_error(exc)
    /\ ~ret.infra

\* The tokens that are transport-failure markers.
TransportMarkers == { markers[k] : k \in 1..Len(markers) }
HasMarker(msg) == \E i \in 1..Len(msg) : msg[i] \in TransportMarkers

\* The except clause produced this attempt's outcome.
Classified == Returned /\ ret.msg \in {"ProxyFail", "Exception"}

C16_NotifyIffUnexpected ==
    (Returned /\ cfg.DISCORD_WEBHOOK_URL /\ ~cfg.ALWAYS_SEND_DISCORD)
    => (posts > 0 <=> (popup = "on" /\ popup_read /\ ~is_expected_failure))

\* C17: with a webhook and ALWAYS_SEND_DISCORD on, every attempt that
\* returns an outcome has issued a notification.
C17_AlwaysNotify ==
    (Returned /\ cfg.DISCORD_WEBHOOK_URL /\ cfg.ALWAYS_SEND_DISCORD)
    => posts >= 1

\* C18: at most one POST goes to the webhook within one attempt.
C18_AtMostOnePost ==
    posts <= 1

\* The configured policy, read as never / unexpected / always: trimmed,
\* lower-cased, and anything else taken as unexpected.
PolicyIs(name) ==
    LET raw == cfg.SCREENSHOT_POLICY
        known == { <<"never">>, <<"unexpected">>, <<"always">>,
                   <<" ", "ALWAYS", "\n">> }
    IN  IF name = "unexpected"
        THEN raw = <<"unexpected">> \/ raw \notin known
        ELSE raw = <<name>> \/ (name = "always" /\ raw = <<" ", "ALWAYS", "\n">>)

\* C19: whether an attempt's outcome comes with a screenshot depends on
\* the policy and on the outcome being an unexpected popup only: never
\* with policy never, always with policy always, exactly for an unexpected
\* popup with policy unexpected, to which every unrecognised value falls.
C19_PolicyDecides ==
    Returned
    => /\ PolicyIs("never") => shots = 0
       /\ PolicyIs("always") => shots = 1
       /\ PolicyIs("unexpected")
            => (shots = 1 <=> (popup_read /\ ~is_expected_failure))

\* Where the policy is consulted and the capture does not fail, the
\* screenshot is taken exactly as the policy decides.
PolicyFollowedWhereConsulted ==
    (Returned /\ ret.msg \in {"PopupNotActivated", "ExpectedFailure", "Unexpected"})
    => /\ PolicyIs("never") => shots = 0
       /\ PolicyIs("always") => shots = 1
       /\ PolicyIs("unexpected")
            => (shots = 1 <=> (popup_read /\ ~is_expected_failure))

\* Number of positions of s holding the character c.
Occurrences(s, c) == Cardinality({ i \in 1..Len(s) : s[i] = c })

\* C20: a returned code has ten characters, the first five from the
\* alphanumeric set and the last five from the letters, no character equal
\* to the one before it (also across the two segments) and no character
\* more than twice.
C20_CodeWellFormed ==
    (gen.pc = "returned" /\ gen.invoked)
    => LET s == gen.result IN
       /\ Len(s) = 10
       /\ \A i \in 1..5 : s[i] \in Range(ALPHANUM)
       /\ \A i \in 6..10 : s[i] \in Range(LETTERS)
       /\ \A i \in 1..9 : s[i] # s[i + 1]
       /\ \A c \in Range(ALPHANUM) : Occurrences(s, c) <= 2

\* A code returned by the second whole-string attempt, after a restart.
C20_Witness ==
    /\ gen.pc = "returned"
    /\ gen.invoked
    /\ gen.attempt = 2
    /\ Len(gen.result) = 10

\* s is empty or whitespace only.
Blank(s) == \A i \in 1..Len(s) : s[i] \in Whitespace

AttemptsStarted ==
    logs + (IF InAttempt \/ pc \in {"log", "crashed"} THEN 1 ELSE 0)

\* C22: run_count starts at 0; it changes only when a loop iteration
\* starts, by exactly one, and every iteration that starts changes it (the
\* one entered by the zero-delay retry too); at all times it is the number
\* of attempts started so far.
C22_RunCounter ==
    /\ run_count = 0
    /\ [][ /\ run_count' # run_count
              => (pc = "loop" /\ run_count' = run_count + 1)
           /\ (pc = "loop" /\ pc' # "loop") => run_count' = run_count + 1 ]_vars
    /\ [](run_count = AttemptsStarted)

\* The second attempt, entered without a sleep after an infrastructure
\* failure, is counted.
C22_Witness ==
    /\ pc = "launch"
    /\ run_count = 2
    /\ logs = 1
    /\ ret.infra
    /\ slept = 0

\* The generator stays within its draw and restart budgets, starts every
\* whole-string attempt with nothing kept, and raises only with the restart
\* budget used up.
GeneratorBounded ==
    /\ gen.tries <= PickTries
    /\ gen.attempt <= Restarts
    /\ gen.pc = "for_attempt" => gen.tries \in {0, PickTries}
    /\ gen.pc = "raised" => gen.attempt = Restarts
    /\ (gen.pc = "pick" /\ gen.out = <<>>) => (gen.counts = NoCounts /\ gen.prev = None)

\* Every call of the generator comes to an end: a code or the final raise.
GeneratorTerminates ==
    (gen.pc = "for_attempt") ~> (gen.pc \in {"returned", "raised"})

\* The member code was verified and the coupon step left without a code:
\* the generator gave up (line 278 reached through line 405).
GeneratorGaveUp ==
    /\ run_count > 0
    /\ member_val = MEMBER_CODE_VALUE
    /\ coupon_code_used = None
    /\ pc # "coupon"

\* C23: the generator stays within its budgets and raises only when the
\* restart budget is used up; an attempt in which it raised fills no coupon
\* field, clicks nothing and ends with an outcome that has success=false
\* and should_stop=false.
C23_ExhaustionEndsAttempt ==
    /\ gen.tries <= PickTries
    /\ gen.attempt <= Restarts
    /\ gen.pc = "raised" => gen.attempt = Restarts
    /\ GeneratorGaveUp => (coupon_val = None /\ clicks = 0)
    /\ (GeneratorGaveUp /\ AttemptEnded)
         => (pc # "crashed" /\ ~ret.ok /\ ~ret.should_stop)

\* C24: under policy always, an attempt that returned after its popup wait
\* was reached (popup active or wait timed out) or after a readback
\* differed has captured a screenshot.
C24_AlwaysCaptures ==
    (Returned /\ PolicyIs("always") /\ (popup \in {"on", "timeout"} \/ Mismatch))
    => shots = 1

SchemeSeparator == <<":", "/", "/">>

\* s neither starts nor ends with whitespace.
Trimmed(s) == s = <<>> \/ (s[1] \notin Whitespace /\ s[Len(s)] \notin Whitespace)

\* C25: selection returns no proxy for an empty pool or a blank entry;
\* otherwise the descriptor's server is the chosen entry of the pool less
\* the whitespace around it, with socks5:// in front exactly when the entry
\* has no scheme separator; username and password are in the descriptor
\* exactly when configured non-empty, with the configured values; and
\* normalising the server once more leaves it as it is.
C25_Descriptor ==
    sel.pc = "returned"
    => IF cfg.SOCKS5_PROXIES = <<>> \/ Blank(sel.choice)
       THEN sel.proxy = NoDescriptor /\ sel.server = NoProxy
       ELSE /\ \E i \in 1..Len(cfg.SOCKS5_PROXIES) : cfg.SOCKS5_PROXIES[i] = sel.choice
            /\ "server" \in DOMAIN sel.proxy
            /\ sel.proxy["server"] = sel.server
            /\ LET core == IF Contains(sel.choice, SchemeSeparator)
                           THEN sel.server
                           ELSE SubSeq(sel.server, 5, Len(sel.server))
               IN  /\ IsPadded(sel.choice, core)
                   /\ Trimmed(core)
                   /\ core # <<>>
                   /\ ~Contains(sel.choice, SchemeSeparator)
                        => SubSeq(sel.server, 1, 4) = <<"socks5">> \o SchemeSeparator
            /\ ("username" \in DOMAIN sel.proxy) <=> (cfg.SOCKS5_USERNAME # <<>>)
            /\ ("password" \in DOMAIN sel.proxy) <=> (cfg.SOCKS5_PASSWORD # <<>>)
            /\ "username" \in DOMAIN sel.proxy
                 => sel.proxy["username"] = cfg.SOCKS5_USERNAME
            /\ "password" \in DOMAIN sel.proxy
                 => sel.proxy["password"] = cfg.SOCKS5_PASSWORD
            /\ DOMAIN sel.proxy \subseteq {"server", "username", "password"}
            /\ _normalize_socks5_proxy(sel.server) = sel.server

\* A padded entry that carries a scheme is returned trimmed and without a
\* second scheme, with the password alone attached.
C25_Witness ==
    /\ sel.pc = "returned"
    /\ sel.choice = <<"\n", "http", ":", "/", "/", "h", " ">>
    /\ sel.server = <<"http", ":", "/", "/", "h">>
    /\ DOMAIN sel.proxy = {"server", "password"}

\* The number of whitespace characters s starts with.
LeadingWhitespace(s) ==
    Cardinality({ k \in 1..Len(s) : \A j \in 1..k : s[j] \in Whitespace })

\* The length of s less the whitespace around it.
TrimmedLen(s) ==
    IF Blank(s) THEN 0
    ELSE Len(s) - LeadingWhitespace(s)
         - Cardinality({ k \in 1..Len(s) : \A j \in k..Len(s) : s[j] \in Whitespace })

\* In the except clause, proxy_load_error is set only for an error that
\* line 512 classifies as proxy-ish.
FlagOnlyIfProxyish ==
    (pc = "except" /\ proxy_load_error) => is_proxyish(proxy_server, exc)

\* C26: the message of an infrastructure-failure outcome carries no stack
\* trace, whatever the verbose and always-notify settings; its error
\* summary has no line break, is not empty and has at most 180 characters;
\* an error text that is longer than that once trimmed is given as its
\* first 177 characters (line breaks as spaces) followed by three dots.
C26_OneLineSummary ==
    (summary.pc = "returned" /\ summary.infra)
    => /\ ~summary.trace
       /\ \A i \in 1..Len(summary.body) : summary.body[i] # "\n"
       /\ summary.body # <<>>
       /\ Len(summary.body) <= 180
       /\ TrimmedLen(summary.text) > 180
            => /\ Len(summary.body) = 180
               /\ \A i \in 1..177 :
                     LET c == summary.text[LeadingWhitespace(summary.text) + i]
                     IN  summary.body[i] = (IF c = "\n" THEN " " ELSE c)
               /\ \A i \in 178..180 : summary.body[i] = "."
       /\ (TrimmedLen(summary.text) \in 1..180)
            => Len(summary.body) = TrimmedLen(summary.text)

\* A two-line error text of more than 180 characters, verbose and
\* always-notify both on, reported as an infrastructure failure.
C26_Witness ==
    /\ summary.pc = "returned"
    /\ summary.infra
    /\ summary.verbose
    /\ summary.always
    /\ TrimmedLen(summary.text) = 181
    /\ summary.text[2] = "\n"
    /\ Len(summary.body) = 180

\* Positions in the tester's events of the attempts made on proxy i.
TriesOf(i) ==
    { k \in 1..Len(tester.events) :
        tester.events[k].kind = "try" /\ tester.events[k].idx = i }

\* Some attempt on proxy i succeeded.
Succeeded(i) == \E k \in TriesOf(i) : tester.events[k].ok

\* The tester is done with proxy i.
Finished(i) ==
    \/ i < tester.idx
    \/ (i = tester.idx /\ tester.pc \in {"for_proxy", "write", "done"})

\* C27: each proxy gets at most 1 + max(RETRIES_PER_PROXY, 0) attempts,
\* one proxy and one attempt at a time in list order; nothing more is
\* tried on a proxy after an attempt succeeded; a retry wait comes only
\* straight after a failed attempt and is followed by another attempt on
\* the same proxy; a finished proxy is in the good list exactly when one of
\* its attempts succeeded, and the good list is in input order.
C27_SequentialRetries ==
    LET ev == tester.events
        allowed == IF tester.retries > 0 THEN 1 + tester.retries ELSE 1
    IN
    /\ \A i \in 1..Len(tester.proxies) : Cardinality(TriesOf(i)) <= allowed
    /\ \A j, k \in 1..Len(ev) : j < k => ev[j].idx <= ev[k].idx
    /\ \A j, k \in 1..Len(ev) :
          (j < k /\ ev[j].kind = "try" /\ ev[j].ok /\ ev[k].idx = ev[j].idx)
          => ev[k].kind = "pause"
    /\ \A k \in 1..Len(ev) :
          ev[k].kind = "wait"
          => /\ k > 1
             /\ ev[k - 1] = Event("try", ev[k].idx, FALSE)
             /\ IF k < Len(ev)
                THEN ev[k + 1].kind = "try" /\ ev[k + 1].idx = ev[k].idx
                ELSE tester.pc = "for_attempt"
                     /\ Cardinality(TriesOf(ev[k].idx)) < allowed
    /\ \A i \in 1..Len(tester.proxies) :
          Finished(i)
          => ((\E g \in 1..Len(tester.good_lines) : tester.good_lines[g] = i)
                <=> Succeeded(i))
    /\ \A g, h \in 1..Len(tester.good_lines) :
          g < h => tester.good_lines[g] < tester.good_lines[h]
    /\ tester.pc = "done" => tester.written = tester.good_lines

\* With one retry: the first proxy fails twice, the second succeeds at its
\* retry and is the only one recorded.
C27_Witness ==
    /\ tester.pc = "done"
    /\ tester.retries = 1
    /\ Len(tester.proxies) = 2
    /\ Cardinality(TriesOf(1)) = 2
    /\ ~Succeeded(1)
    /\ Cardinality(TriesOf(2)) = 2
    /\ Succeeded(2)
    /\ tester.good_lines = <<2>>

\* The attempt that produced the outcome o clicked redeem, saw the popup
\* become active and read its markup.
PopupSeen == clicks = 1 /\ popup = "on" /\ popup_read

\* What C28 asks of an outcome o of the attempt whose locals are at hand.
StopOnlyOnUnexpected(o) ==
    /\ o.should_stop
         => /\ PopupSeen
            /\ popup_raw # EXPECTED_POPUP_MESSAGE_HTML
            /\ popup_html # EXPECTED_POPUP_MESSAGE_HTML
            /\ cfg.STOP_ON_UNEXPECTED
            /\ ~o.ok
    /\ o.ok => PopupSeen

\* C28: an outcome has should_stop only when, in its attempt, redeem was
\* clicked, the popup became active with a message other than the expected
\* one and STOP_ON_UNEXPECTED is on; such an outcome has success=false; an
\* outcome with success=true comes from an attempt whose popup became
\* active.
C28_StopOnlyOnUnexpected ==
    /\ (Returned \/ pc = "exited") => StopOnlyOnUnexpected(ret)
    /\ pc = "finally" => StopOnlyOnUnexpected(pending)

\* A stop outcome of an attempt made through a proxy, the popup showing
\* the expected words without the line break.
C28_Witness ==
    /\ Returned
    /\ ret.should_stop
    /\ ~ret.ok
    /\ proxy_server # NoProxy
    /\ popup_raw = <<"a", " ", "b">>

====
